---- MODULE Spec2Model ----
(***************************************************************************)
(* Model of python_tools/pipeline_kickoff/generate_access_variants_inputs.py *)
(* (ACCESS-Variants inputs generation): pairing-file validation, tumor /     *)
(* normal pairing, and the genotyping manifest written by write_yaml_bams.   *)
(*                                                                           *)
(* Strings (sample ids, bam paths) are sequences of one-character strings,   *)
(* so that Python's `in` (substring) and `split` are computed, not assumed.  *)
(***************************************************************************)
EXTENDS Integers, Sequences, FiniteSets

VARIABLES
    entry,                          \* the function the run calls
    matched,                        \* args.matched_mode / the `matched` argument
    validate_first,                 \* direct call: validate_pairing_file runs before the resolver
    normal_dir_given,               \* args.normal_bams_directory is not None
    default_normal_path,            \* args.default_normal_path
    pc,                             \* position of the run
    out_file,                       \* state of the file args.output_file_name
    error,                          \* exception that ended the run, "none" while there is none
    pairing_file,                   \* rows of the pairing DataFrame (blank-filled)
    tumor_bam_paths,
    normal_bam_paths,
    simplex_bam_paths,
    curated_bam_duplex_paths,
    curated_bam_simplex_paths,
    ordered_tumor_samples,
    ordered_normal_samples,
    ordered_tn_genotyping_samples,
    yaml                            \* the six documents write_yaml_bams writes

vars == <<entry, matched, validate_first, normal_dir_given, default_normal_path,
          pc, out_file, error, pairing_file,
          tumor_bam_paths, normal_bam_paths, simplex_bam_paths,
          curated_bam_duplex_paths, curated_bam_simplex_paths,
          ordered_tumor_samples, ordered_normal_samples,
          ordered_tn_genotyping_samples, yaml>>

----------------------------------------------------------------------------
(* Bounds of the explored inputs *)

MaxRows == 3        \* rows of a pairing file
MaxPool == 2        \* bam files listed in the tumor / normal directory
MaxAux == 1         \* bam files listed in each genotyping-only directory

----------------------------------------------------------------------------
(* Strings *)

Blank == << >>
S1 == <<"S", "1">>
S2 == <<"S", "2">>
S12 == <<"S", "1", "2">>
N2 == <<"N", "2">>
N21 == <<"N", "2", "1">>

\* '_cl_aln', the marker extract_sample_id_from_bam_path splits on
CL_ALN == <<"_", "c", "l", "_", "a", "l", "n">>
DotBam == <<".", "b", "a", "m">>

\* os.path.join(dir, f) for a file named <name>_cl_aln.bam
Bam(dir, name) == dir \o <<"/">> \o name \o CL_ALN \o DotBam

TumorIds == {Blank, S1, S2}
NormalIds == {Blank, N2}
TumorFiles == {Bam(<<"t">>, S1), Bam(<<"t">>, S2), Bam(<<"t">>, S12)}
NormalFiles == {Bam(<<"n">>, N2), Bam(<<"n">>, N21)}
\* the default normal is a bam of the normal directory, which may or may not list it
DefaultNormals == {Bam(<<"n">>, N21)}
\* genotyping-only directories: a file with the marker, a file without it
SimplexFiles == {Bam(<<"s">>, S1)}
CuratedDuplexFiles == {<<"c", "/">> \o N2 \o DotBam}
CuratedSimplexFiles == {<<"c", "/", "x", "/">> \o S1 \o CL_ALN \o CL_ALN \o DotBam}

\* sequences of at most n distinct elements of S (a directory listing)
Listings(S, n) ==
    UNION { { f \in [1..k -> S] : \A a, b \in 1..k : a # b => f[a] # f[b] } : k \in 0..n }

TumorListings == Listings(TumorFiles, MaxPool)
NormalListings == Listings(NormalFiles, MaxPool)

Rows == [tumor_id : TumorIds, normal_id : NormalIds]
PairingFiles == UNION { [1..k -> Rows] : k \in 0..MaxRows }

\* Python `sub in s` on strings
Contains(sub, s) ==
    \E k \in 0..(Len(s) - Len(sub)) : \A j \in 1..Len(sub) : s[k + j] = sub[j]

\* filter(lambda t: id in t, samples)
Filter(id, samples) == SelectSeq(samples, LAMBDA t : Contains(id, t))

Min(S) == CHOOSE x \in S : \A y \in S : x <= y
Max(S) == CHOOSE x \in S : \A y \in S : x >= y

\* bam_path.split('/')[-1]
LastSegment(bam_path) ==
    LET slashes == { k \in 1..Len(bam_path) : bam_path[k] = "/" }
    IN  IF slashes = {} THEN bam_path
        ELSE SubSeq(bam_path, Max(slashes) + 1, Len(bam_path))

\* s.split('_cl_aln')[0]
BeforeMarker(s) ==
    LET hits == { k \in 1..(Len(s) - Len(CL_ALN) + 1) :
                      \A j \in 1..Len(CL_ALN) : s[k + j - 1] = CL_ALN[j] }
    IN  IF hits = {} THEN s ELSE SubSeq(s, 1, Min(hits) - 1)

extract_sample_id_from_bam_path(bam_path) == BeforeMarker(LastSegment(bam_path))

\* [{'class': 'File', 'path': b} for b in bam_paths]
create_yaml_file_objects(bam_paths) ==
    [ k \in 1..Len(bam_paths) |-> [class |-> "File", path |-> bam_paths[k]] ]

\* [x] * n
Repeat(x, n) == [ k \in 1..n |-> x ]

----------------------------------------------------------------------------
(* validate_pairing_file *)

\* validation without `assert tumor_id`
ValidateRow_NoTumorAssert(tn_pair, tumor_samples, normal_samples) ==
    LET tumor_id == tn_pair.tumor_id
        normal_id == tn_pair.normal_id
    IN  /\ Len(Filter(tumor_id, tumor_samples)) = 1
        /\ (normal_id # Blank => Len(Filter(normal_id, normal_samples)) = 1)

\* validation without the check of a non-blank normal_id
ValidateRow_NoNormalCheck(tn_pair, tumor_samples, normal_samples) ==
    LET tumor_id == tn_pair.tumor_id
    IN  /\ tumor_id # Blank
        /\ Len(Filter(tumor_id, tumor_samples)) = 1

\* the body of the validation loop for one row: TRUE iff no assert fails
ValidateRow(tn_pair, tumor_samples, normal_samples) ==
    LET tumor_id == tn_pair.tumor_id
        normal_id == tn_pair.normal_id
    IN  /\ tumor_id # Blank
        /\ Len(Filter(tumor_id, tumor_samples)) = 1
        /\ (normal_id # Blank => Len(Filter(normal_id, normal_samples)) = 1)

\* TRUE iff validate_pairing_file returns, FALSE iff it raises AssertionError
validate_pairing_file(pairing, tumor_samples, normal_samples) ==
    \A i \in 1..Len(pairing) : ValidateRow(pairing[i], tumor_samples, normal_samples)

----------------------------------------------------------------------------
(* parse_tumor_normal_pairing *)

\* the locals of parse_tumor_normal_pairing before its loop
ParseStart ==
    [ ordered_tumor_samples |-> << >>,
      ordered_normal_samples |-> << >>,
      ordered_fillout_samples |-> << >>,
      default_added_for_genotyping |-> FALSE,
      error |-> "none" ]

\* the branch `if not matched`
UnmatchedRow(acc, tumor_sample, normal_id, normal_samples, default_normal) ==
    LET normal_sample == Filter(normal_id, normal_samples)
        fillout == Append(acc.ordered_fillout_samples, tumor_sample)
    IN  [ acc EXCEPT
            !.ordered_tumor_samples = Append(@, tumor_sample),
            !.ordered_normal_samples = Append(@, default_normal),
            !.ordered_fillout_samples =
                IF Len(normal_sample) = 1 THEN Append(fillout, normal_sample[1])
                ELSE fillout ]

\* the blank-normal branch without the default_added_for_genotyping test
BlankNormalRow_AlwaysDefault(acc, tumor_sample, default_normal) ==
    [ acc EXCEPT
        !.ordered_tumor_samples = Append(@, tumor_sample),
        !.ordered_normal_samples = Append(@, default_normal),
        !.ordered_fillout_samples = Append(Append(@, tumor_sample), default_normal),
        !.default_added_for_genotyping = TRUE ]

\* the branch `elif normal_id == ''`
BlankNormalRow(acc, tumor_sample, default_normal) ==
    LET fillout == Append(acc.ordered_fillout_samples, tumor_sample)
    IN  [ acc EXCEPT
            !.ordered_tumor_samples = Append(@, tumor_sample),
            !.ordered_normal_samples = Append(@, default_normal),
            !.ordered_fillout_samples =
                IF ~acc.default_added_for_genotyping THEN Append(fillout, default_normal)
                ELSE fillout,
            !.default_added_for_genotyping = TRUE ]

\* the matched branch with tumor and normal appended to the wrong lists
MatchedNormalRow_Swapped(acc, tumor_sample, normal_id, normal_samples) ==
    LET normal_sample == Filter(normal_id, normal_samples)[1]
    IN  [ acc EXCEPT
            !.ordered_tumor_samples = Append(@, normal_sample),
            !.ordered_normal_samples = Append(@, tumor_sample),
            !.ordered_fillout_samples = Append(Append(@, tumor_sample), normal_sample) ]

\* the branch `elif any(normal_id in n for n in normal_samples)`
MatchedNormalRow(acc, tumor_sample, normal_id, normal_samples) ==
    LET normal_sample == Filter(normal_id, normal_samples)[1]
    IN  [ acc EXCEPT
            !.ordered_tumor_samples = Append(@, tumor_sample),
            !.ordered_normal_samples = Append(@, normal_sample),
            !.ordered_fillout_samples = Append(Append(@, tumor_sample), normal_sample) ]

\* one iteration of the loop over pairing_file.iterrows()
ParseRow(acc, tn_pair, tumor_samples, normal_samples, default_normal, is_matched) ==
    LET tumor_id == tn_pair.tumor_id
        normal_id == tn_pair.normal_id
        tumor_found == Filter(tumor_id, tumor_samples)
    IN  IF tumor_found = << >>
        THEN [acc EXCEPT !.error = "IndexError"]
        ELSE IF ~is_matched
        THEN UnmatchedRow(acc, tumor_found[1], normal_id, normal_samples, default_normal)
        ELSE IF normal_id = Blank
        THEN BlankNormalRow(acc, tumor_found[1], default_normal)
        ELSE IF \E k \in 1..Len(normal_samples) : Contains(normal_id, normal_samples[k])
        THEN MatchedNormalRow(acc, tumor_found[1], normal_id, normal_samples)
        ELSE [acc EXCEPT !.error = "MissingPairedNormal"]

RECURSIVE ParseLoop(_, _, _, _, _, _)
ParseLoop(acc, rows, tumor_samples, normal_samples, default_normal, is_matched) ==
    IF rows = << >> \/ acc.error # "none" THEN acc
    ELSE ParseLoop(ParseRow(acc, Head(rows), tumor_samples, normal_samples,
                            default_normal, is_matched),
                   Tail(rows), tumor_samples, normal_samples, default_normal, is_matched)

\* the locals when the function returns (error = "none") or raises
parse_tumor_normal_pairing(pairing, tumor_samples, normal_samples, default_normal, is_matched) ==
    ParseLoop(ParseStart, pairing, tumor_samples, normal_samples, default_normal, is_matched)

----------------------------------------------------------------------------
(* write_yaml_bams: the lists it builds *)

\* the else branch adding every copy of the default normal
UnmatchedGenotypingSamples_AllNormals(tumor_samples, normal_samples) ==
    tumor_samples \o normal_samples

\* the else branch: ordered_tumor_samples + [ordered_normal_samples[0]]
UnmatchedGenotypingSamples(tumor_samples, normal_samples) ==
    tumor_samples \o <<normal_samples[1]>>

\* tumor_sample_ids
TumorSampleIds(pairing, is_matched, tumor_paths) ==
    IF is_matched
    THEN [ k \in 1..Len(pairing) |-> pairing[k].tumor_id ]
    ELSE [ k \in 1..Len(tumor_paths) |-> extract_sample_id_from_bam_path(tumor_paths[k]) ]

\* normal_sample_ids taken from the pairing file also where normal_id is blank
NormalSampleIds_PairingOnly(pairing, is_matched, default_normal, tumor_sample_ids) ==
    IF is_matched
    THEN [ k \in 1..Len(pairing) |-> pairing[k].normal_id ]
    ELSE Repeat(extract_sample_id_from_bam_path(default_normal), Len(tumor_sample_ids))

\* normal_sample_ids
NormalSampleIds(pairing, is_matched, default_normal, tumor_sample_ids) ==
    IF is_matched
    THEN [ k \in 1..Len(pairing) |->
               IF pairing[k].normal_id # Blank THEN pairing[k].normal_id
               ELSE extract_sample_id_from_bam_path(default_normal) ]
    ELSE Repeat(extract_sample_id_from_bam_path(default_normal), Len(tumor_sample_ids))

\* '-SIMPLEX', '-CURATED', '-CURATED-SIMPLEX'
SIMPLEX == <<"-", "S", "I", "M", "P", "L", "E", "X">>
CURATED == <<"-", "C", "U", "R", "A", "T", "E", "D">>
CURATED_SIMPLEX == CURATED \o SIMPLEX

\* [extract_sample_id_from_bam_path(b['path']) + suffix for b in bams]
SuffixedIds(bams, suffix) ==
    [ k \in 1..Len(bams) |-> extract_sample_id_from_bam_path(bams[k].path) \o suffix ]

\* genotyping_bams
GenotypingBams(tn_genotyping_bams, simplex_genotyping_bams, curated_duplex_genotyping_bams, curated_simplex_genotyping_bams) ==
    tn_genotyping_bams \o simplex_genotyping_bams
        \o curated_duplex_genotyping_bams \o curated_simplex_genotyping_bams

\* genotyping_bams_ids with the two curated pools in the other order
GenotypingBamsIds_CuratedSwapped(tn_genotyping_bams, simplex_genotyping_bams, curated_duplex_genotyping_bams, curated_simplex_genotyping_bams) ==
    SuffixedIds(tn_genotyping_bams, << >>)
        \o SuffixedIds(simplex_genotyping_bams, SIMPLEX)
        \o SuffixedIds(curated_simplex_genotyping_bams, CURATED_SIMPLEX)
        \o SuffixedIds(curated_duplex_genotyping_bams, CURATED)

\* genotyping_bams_ids
GenotypingBamsIds(tn_genotyping_bams, simplex_genotyping_bams, curated_duplex_genotyping_bams, curated_simplex_genotyping_bams) ==
    SuffixedIds(tn_genotyping_bams, << >>)
        \o SuffixedIds(simplex_genotyping_bams, SIMPLEX)
        \o SuffixedIds(curated_duplex_genotyping_bams, CURATED)
        \o SuffixedIds(curated_simplex_genotyping_bams, CURATED_SIMPLEX)

\* the six documents, from the ordered samples and the genotyping-only pools
YamlDocuments(pairing, is_matched, tumor_paths, default_normal, tumor_samples, normal_samples, tn_genotyping_samples, simplex_paths, curated_duplex_paths, curated_simplex_paths) ==
    LET tn_genotyping_bams == create_yaml_file_objects(tn_genotyping_samples)
        simplex_genotyping_bams == create_yaml_file_objects(simplex_paths)
        curated_duplex_genotyping_bams == create_yaml_file_objects(curated_duplex_paths)
        curated_simplex_genotyping_bams == create_yaml_file_objects(curated_simplex_paths)
        tumor_sample_ids == TumorSampleIds(pairing, is_matched, tumor_paths)
    IN  [ tumor_bams |-> create_yaml_file_objects(tumor_samples),
          normal_bams |-> create_yaml_file_objects(normal_samples),
          tumor_sample_names |-> tumor_sample_ids,
          normal_sample_names |->
              NormalSampleIds(pairing, is_matched, default_normal, tumor_sample_ids),
          genotyping_bams |->
              GenotypingBams(tn_genotyping_bams, simplex_genotyping_bams,
                             curated_duplex_genotyping_bams,
                             curated_simplex_genotyping_bams),
          genotyping_bams_ids |->
              GenotypingBamsIds(tn_genotyping_bams, simplex_genotyping_bams,
                                curated_duplex_genotyping_bams,
                                curated_simplex_genotyping_bams) ]

NoYaml ==
    [ tumor_bams |-> << >>, normal_bams |-> << >>, tumor_sample_names |-> << >>,
      normal_sample_names |-> << >>, genotyping_bams |-> << >>,
      genotyping_bams_ids |-> << >> ]

----------------------------------------------------------------------------
(* The runs *)

Inputs == <<entry, matched, validate_first, normal_dir_given, default_normal_path>>
Pools == <<tumor_bam_paths, normal_bam_paths, simplex_bam_paths,
           curated_bam_duplex_paths, curated_bam_simplex_paths>>
Ordered == <<ordered_tumor_samples, ordered_normal_samples, ordered_tn_genotyping_samples>>

\* the listings of the three genotyping-only directories (as many files in each)
AuxListings ==
    { l \in Listings(SimplexFiles, MaxAux) \X Listings(CuratedDuplexFiles, MaxAux)
              \X Listings(CuratedSimplexFiles, MaxAux) :
          Len(l[1]) = Len(l[2]) /\ Len(l[2]) = Len(l[3]) }

\* main() after parse_arguments, or a direct call of the pairing functions
Init ==
    /\ entry \in {"create_inputs_file", "validate_pairing_file", "parse_tumor_normal_pairing"}
    /\ matched \in BOOLEAN
    /\ validate_first \in BOOLEAN
    /\ normal_dir_given \in BOOLEAN
    /\ default_normal_path \in DefaultNormals
    \* parse_arguments: --matched_mode requires --normal_bams_directory;
    \* write_yaml_bams validates exactly in matched mode
    /\ entry = "create_inputs_file" =>
           (matched => normal_dir_given) /\ validate_first = matched
    \* direct calls; validation followed by matched resolution is write_yaml_bams' own path
    /\ entry = "validate_pairing_file" => normal_dir_given /\ validate_first /\ ~matched
    /\ entry = "parse_tumor_normal_pairing" => normal_dir_given /\ ~validate_first
    /\ pc = IF entry = "create_inputs_file" THEN "open" ELSE "call"
    /\ out_file = "untouched"
    /\ error = "none"
    /\ pairing_file = << >>
    /\ tumor_bam_paths = << >>
    /\ normal_bam_paths = << >>
    /\ simplex_bam_paths = << >>
    /\ curated_bam_duplex_paths = << >>
    /\ curated_bam_simplex_paths = << >>
    /\ ordered_tumor_samples = << >>
    /\ ordered_normal_samples = << >>
    /\ ordered_tn_genotyping_samples = << >>
    /\ yaml = NoYaml

\* create_inputs_file: fh = open(args.output_file_name, 'w')
OpenOutput ==
    /\ pc = "open"
    /\ out_file' = "truncated"
    /\ pc' = "find_bams"
    /\ UNCHANGED <<Inputs, Pools, Ordered, error, pairing_file, yaml>>

\* create_inputs_file: the find_bams_in_directory calls
FindBams ==
    /\ pc = "find_bams"
    /\ tumor_bam_paths' \in TumorListings
    /\ \E aux \in AuxListings :
           /\ simplex_bam_paths' = aux[1]
           /\ curated_bam_duplex_paths' = aux[2]
           /\ curated_bam_simplex_paths' = aux[3]
    /\ IF normal_dir_given
       THEN normal_bam_paths' \in NormalListings
       ELSE normal_bam_paths' = Repeat(default_normal_path, Len(tumor_bam_paths'))
    /\ pc' = "write_yaml_bams"
    /\ UNCHANGED <<Inputs, Ordered, out_file, error, pairing_file, yaml>>

\* the outcome of validate_pairing_file on a table and two pools
Validated(pairing, tumor_samples, normal_samples) ==
    IF validate_pairing_file(pairing, tumor_samples, normal_samples)
    THEN pc' = "parse" /\ error' = error
    ELSE pc' = "raised" /\ error' = "AssertionError"

\* the outcome of parse_tumor_normal_pairing on a table and two pools
Parsed(pairing, tumor_samples, normal_samples) ==
    LET r == parse_tumor_normal_pairing(pairing, tumor_samples, normal_samples,
                                        default_normal_path, matched)
    IN  IF r.error = "none"
        THEN /\ ordered_tumor_samples' = r.ordered_tumor_samples
             /\ ordered_normal_samples' = r.ordered_normal_samples
             /\ ordered_tn_genotyping_samples' = r.ordered_fillout_samples
             /\ pc' = IF entry = "create_inputs_file" THEN "build" ELSE "returned"
             /\ error' = error
        ELSE /\ pc' = "raised"
             /\ error' = r.error
             /\ UNCHANGED Ordered

\* write_yaml_bams, matched mode: pd.read_csv(...).fillna('') and validate_pairing_file
ReadAndValidatePairingFile ==
    /\ pc = "write_yaml_bams"
    /\ matched
    /\ pairing_file' \in PairingFiles
    /\ Validated(pairing_file', tumor_bam_paths, normal_bam_paths)
    /\ UNCHANGED <<Inputs, Pools, Ordered, out_file, yaml>>

\* a direct call validate_pairing_file(pairing_file, tumor_samples, normal_samples)
CallValidatePairingFile ==
    /\ pc = "call"
    /\ validate_first
    /\ pairing_file' \in PairingFiles
    /\ tumor_bam_paths' \in TumorListings
    /\ normal_bam_paths' \in NormalListings
    /\ Validated(pairing_file', tumor_bam_paths', normal_bam_paths')
    /\ UNCHANGED <<Inputs, simplex_bam_paths, curated_bam_duplex_paths,
                   curated_bam_simplex_paths, Ordered, out_file, yaml>>

\* a direct call parse_tumor_normal_pairing(pairing_file, tumor_samples,
\* normal_samples, default_normal_path, matched) on a table that was not validated
CallParseTumorNormalPairing ==
    /\ pc = "call"
    /\ ~validate_first
    /\ pairing_file' \in PairingFiles
    /\ tumor_bam_paths' \in TumorListings
    /\ normal_bam_paths' \in NormalListings
    /\ Parsed(pairing_file', tumor_bam_paths', normal_bam_paths')
    /\ UNCHANGED <<Inputs, simplex_bam_paths, curated_bam_duplex_paths,
                   curated_bam_simplex_paths, out_file, yaml>>

\* parse_tumor_normal_pairing after validate_pairing_file has returned
ParseTumorNormalPairing ==
    /\ pc = "parse"
    /\ Parsed(pairing_file, tumor_bam_paths, normal_bam_paths)
    /\ UNCHANGED <<Inputs, Pools, out_file, pairing_file, yaml>>

\* write_yaml_bams, unmatched mode: the else branch
UnmatchedPairing ==
    /\ pc = "write_yaml_bams"
    /\ ~matched
    /\ LET normals == Repeat(default_normal_path, Len(tumor_bam_paths))
       IN  IF normals = << >>
           THEN \* ordered_normal_samples[0] of an empty list
                /\ pc' = "raised"
                /\ error' = "IndexError"
                /\ UNCHANGED Ordered
           ELSE /\ ordered_tumor_samples' = tumor_bam_paths
                /\ ordered_normal_samples' = normals
                /\ ordered_tn_genotyping_samples' =
                       UnmatchedGenotypingSamples(tumor_bam_paths, normals)
                /\ pc' = "build"
                /\ error' = error
    /\ UNCHANGED <<Inputs, Pools, out_file, pairing_file, yaml>>

\* write_yaml_bams: build the documents and write them
WriteYamlBams ==
    /\ pc = "build"
    /\ yaml' = YamlDocuments(pairing_file, matched, tumor_bam_paths, default_normal_path,
                             ordered_tumor_samples, ordered_normal_samples,
                             ordered_tn_genotyping_samples, simplex_bam_paths,
                             curated_bam_duplex_paths, curated_bam_simplex_paths)
    /\ out_file' = "bams_written"
    /\ pc' = "include"
    /\ UNCHANGED <<Inputs, Pools, Ordered, error, pairing_file>>

\* create_inputs_file: resources, run params, project name, version, fh.close()
IncludeAndClose ==
    /\ pc = "include"
    /\ out_file' = "complete"
    /\ pc' = "done"
    /\ UNCHANGED <<Inputs, Pools, Ordered, error, pairing_file, yaml>>

Next ==
    \/ OpenOutput
    \/ FindBams
    \/ ReadAndValidatePairingFile
    \/ CallValidatePairingFile
    \/ CallParseTumorNormalPairing
    \/ ParseTumorNormalPairing
    \/ UnmatchedPairing
    \/ WriteYamlBams
    \/ IncludeAndClose

Spec == Init /\ [][Next]_vars

----------------------------------------------------------------------------
(* Properties *)

\* the places of the paths of `samples` that contain `id`
Positions(id, samples) == { k \in 1..Len(samples) : Contains(id, samples[k]) }
UniquelyIn(id, samples) == Cardinality(Positions(id, samples)) = 1
TheOne(id, samples) == samples[CHOOSE k \in Positions(id, samples) : TRUE]
Occurrences(x, seq) == Cardinality({ k \in 1..Len(seq) : seq[k] = x })
PathsOf(bams) == [ k \in 1..Len(bams) |-> bams[k].path ]

RECURSIVE ConcatUpTo(_, _)
ConcatUpTo(parts, n) == IF n = 0 THEN << >> ELSE ConcatUpTo(parts, n - 1) \o parts[n]

RowIndices == 1..Len(pairing_file)
BlankNormalRows == { i \in RowIndices : pairing_file[i].normal_id = Blank }
NamedNormalRows == RowIndices \ BlankNormalRows

Main == entry = "create_inputs_file"
\* parse_tumor_normal_pairing has returned / has raised
ResolverReturned == pc \in {"returned", "build", "include", "done"} /\ (Main => matched)
ResolverRaised ==
    pc = "raised" /\ error \in {"IndexError", "MissingPairedNormal"} /\ (Main => matched)
\* validate_pairing_file has returned / has raised
ValidationPassed == validate_first /\ (pc = "parse" \/ ResolverReturned \/ ResolverRaised)
ValidationFailed == pc = "raised" /\ error = "AssertionError"
\* write_yaml_bams has written its documents
Written == pc \in {"include", "done"}
\* the data model's rows: a tumor_id is never empty
TumorIdsGiven == \A i \in RowIndices : pairing_file[i].tumor_id # Blank

(* C1: matched mode, whenever resolution completes on a table with at least two
   rows of blank normal_id, default_normal_path occurs exactly once in the
   returned genotyping list. *)
C1_DefaultGenotypedOnce ==
    (matched /\ ResolverReturned /\ TumorIdsGiven /\ Cardinality(BlankNormalRows) >= 2)
        => Occurrences(default_normal_path, ordered_tn_genotyping_samples) = 1

(* C2: unmatched mode, the genotyping list is, row by row, the row's tumor file
   followed by a normal file exactly when the row's normal_id is non-empty and
   is a substring of exactly one normal-pool path; a blank normal_id adds the
   tumor file only. *)
C2_UnmatchedGenotyping ==
    (~Main /\ ~matched /\ pc = "returned" /\ TumorIdsGiven)
        => /\ Len(ordered_tumor_samples) = Len(pairing_file)
           /\ ordered_tn_genotyping_samples =
                  ConcatUpTo([ i \in RowIndices |->
                                 LET normal_id == pairing_file[i].normal_id
                                 IN  IF normal_id # Blank /\ UniquelyIn(normal_id, normal_bam_paths)
                                     THEN <<ordered_tumor_samples[i],
                                            TheOne(normal_id, normal_bam_paths)>>
                                     ELSE <<ordered_tumor_samples[i]>> ],
                             Len(pairing_file))

(* C3: when the core fails (validation rejects the table, or the resolver raises
   the missing-paired-normal error) create_inputs_file has not created,
   truncated or written the output file. *)
C3_NoOutputOnCoreFailure ==
    (Main /\ pc = "raised" /\ error \in {"AssertionError", "MissingPairedNormal"})
        => out_file = "untouched"

\* row i is one validate_pairing_file is to accept
RowAccepted(i) ==
    LET r == pairing_file[i]
    IN  /\ r.tumor_id # Blank
        /\ UniquelyIn(r.tumor_id, tumor_bam_paths)
        /\ (r.normal_id = Blank \/ UniquelyIn(r.normal_id, normal_bam_paths))

(* C4: validate_pairing_file accepts a table if and only if every row has a
   non-empty tumor_id that is a substring of exactly one tumor-pool path and a
   normal_id that is blank or a substring of exactly one normal-pool path; in
   every other case it fails. *)
C4_ValidateAcceptsIff ==
    /\ ValidationPassed => \A i \in RowIndices : RowAccepted(i)
    /\ ValidationFailed => \E i \in RowIndices : ~RowAccepted(i)

\* validation has rejected a table for a normal_id that two normal bams contain
C4_Witness ==
    /\ ValidationFailed
    /\ \E i \in RowIndices :
           /\ pairing_file[i].tumor_id # Blank
           /\ UniquelyIn(pairing_file[i].tumor_id, tumor_bam_paths)
           /\ Cardinality(Positions(pairing_file[i].normal_id, normal_bam_paths)) = 2
           /\ \A j \in RowIndices \ {i} : RowAccepted(j)

(* C5: matched mode, for a table that passed validation: the i-th returned tumor
   file is the one tumor-pool path containing table[i].tumor_id, the i-th
   returned normal file is default_normal_path when table[i].normal_id is blank
   and otherwise the one normal-pool path containing it. *)
C5_MatchedPairsByRow ==
    (matched /\ validate_first /\ ResolverReturned)
        => /\ Len(ordered_tumor_samples) = Len(pairing_file)
           /\ Len(ordered_normal_samples) = Len(pairing_file)
           /\ \A i \in RowIndices :
                  /\ ordered_tumor_samples[i] = TheOne(pairing_file[i].tumor_id, tumor_bam_paths)
                  /\ ordered_normal_samples[i] =
                         IF pairing_file[i].normal_id = Blank THEN default_normal_path
                         ELSE TheOne(pairing_file[i].normal_id, normal_bam_paths)

\* a validated matched run returned pairs for blank and named normals of two tumors
C5_Witness ==
    /\ matched /\ validate_first /\ ResolverReturned
    /\ BlankNormalRows # {} /\ NamedNormalRows # {}
    /\ \E i, j \in RowIndices : ordered_tumor_samples[i] # ordered_tumor_samples[j]
    /\ \E i \in RowIndices : ordered_normal_samples[i] # default_normal_path

(* C6: matched mode, for a table that passed validation: the genotyping list is
   the concatenation in table order of [tumor, normal] for a row with a named
   normal, [tumor, default normal] for the first row with a blank normal_id and
   [tumor] for every later such row; files repeated across rows are kept. *)
C6_MatchedGenotypingOrder ==
    (matched /\ validate_first /\ ResolverReturned)
        => /\ Len(ordered_tumor_samples) = Len(pairing_file)
           /\ Len(ordered_normal_samples) = Len(pairing_file)
           /\ ordered_tn_genotyping_samples =
                  ConcatUpTo([ i \in RowIndices |->
                                 IF i \in NamedNormalRows
                                 THEN <<TheOne(pairing_file[i].tumor_id, tumor_bam_paths),
                                        TheOne(pairing_file[i].normal_id, normal_bam_paths)>>
                                 ELSE IF \A j \in BlankNormalRows : i <= j
                                 THEN <<TheOne(pairing_file[i].tumor_id, tumor_bam_paths),
                                        default_normal_path>>
                                 ELSE <<TheOne(pairing_file[i].tumor_id, tumor_bam_paths)>> ],
                             Len(pairing_file))

\* two rows with a blank normal_id, and a tumor file that two rows repeat
C6_Witness ==
    /\ matched /\ validate_first /\ ResolverReturned
    /\ Cardinality(BlankNormalRows) >= 2
    /\ NamedNormalRows # {}
    /\ \E i \in RowIndices :
           Occurrences(ordered_tumor_samples[i], ordered_tn_genotyping_samples) >= 2

\* the suffix of the pool the k-th genotyping bam came from
SuffixAt(k) ==
    LET a == Len(ordered_tn_genotyping_samples)
        b == a + Len(simplex_bam_paths)
        c == b + Len(curated_bam_duplex_paths)
    IN  IF k <= a THEN << >>
        ELSE IF k <= b THEN SIMPLEX
        ELSE IF k <= c THEN CURATED
        ELSE CURATED_SIMPLEX

(* C7: the genotyping_bams written are the T/N genotyping list, the simplex
   pool, the curated duplex pool and the curated simplex pool concatenated in
   that order with nothing removed; genotyping_bams_ids has the same length and
   its i-th identifier is extract_sample_id_from_bam_path of the i-th path
   followed by the suffix of the pool that path came from. *)
C7_ManifestAligned ==
    Written
        => /\ PathsOf(yaml.genotyping_bams) =
                  ordered_tn_genotyping_samples \o simplex_bam_paths
                      \o curated_bam_duplex_paths \o curated_bam_simplex_paths
           /\ Len(yaml.genotyping_bams_ids) = Len(yaml.genotyping_bams)
           /\ \A k \in 1..Len(yaml.genotyping_bams) :
                  yaml.genotyping_bams_ids[k] =
                      extract_sample_id_from_bam_path(yaml.genotyping_bams[k].path)
                          \o SuffixAt(k)

\* a matched run wrote a manifest with bams of all four pools
C7_Witness ==
    /\ Written /\ matched
    /\ Len(ordered_tn_genotyping_samples) >= 3
    /\ simplex_bam_paths # << >>
    /\ curated_bam_duplex_paths # << >>
    /\ curated_bam_simplex_paths # << >>
    /\ Len(yaml.genotyping_bams_ids) = Len(ordered_tn_genotyping_samples) + 3

(* C8: for a table that passed validation, in both modes the resolver returns a
   tumor list and a normal list of as many entries as the table has rows; in
   matched mode tumor_sample_names and normal_sample_names have that length too,
   normal_sample_names[i] being table[i].normal_id when it is not blank and the
   sample id extracted from default_normal_path otherwise. *)
C8_EqualLengths ==
    /\ (validate_first /\ ResolverReturned)
           => /\ Len(ordered_tumor_samples) = Len(pairing_file)
              /\ Len(ordered_normal_samples) = Len(pairing_file)
    /\ (Main /\ matched /\ Written)
           => /\ Len(yaml.tumor_sample_names) = Len(pairing_file)
              /\ Len(yaml.normal_sample_names) = Len(pairing_file)
              /\ \A i \in RowIndices :
                     yaml.normal_sample_names[i] =
                         IF pairing_file[i].normal_id # Blank THEN pairing_file[i].normal_id
                         ELSE extract_sample_id_from_bam_path(default_normal_path)

\* a matched run wrote the sample names of rows with blank and with named normals
C8_Witness ==
    /\ Main /\ matched /\ Written
    /\ BlankNormalRows # {} /\ NamedNormalRows # {}
    /\ Len(yaml.normal_sample_names) >= 2
    /\ Len(yaml.normal_bams) = Len(yaml.normal_sample_names)

\* row i names a normal that no normal bam contains
NormalMissing(i) ==
    /\ pairing_file[i].normal_id # Blank
    /\ Positions(pairing_file[i].normal_id, normal_bam_paths) = {}
\* the tumor lookup of row i finds a bam
TumorFound(i) == Positions(pairing_file[i].tumor_id, tumor_bam_paths) # {}
\* an unvalidated matched call of the resolver has ended
UnvalidatedMatchedEnded ==
    ~Main /\ ~validate_first /\ matched /\ pc \in {"returned", "raised"}

(* C9 as stated: after a validation that passed, matched resolution completes;
   without validation, matched resolution raises the missing-paired-normal
   error exactly when some row names a normal that no normal bam contains, and
   then returns none of the three lists. *)
C9_RaisesIffNormalMissing ==
    /\ (matched /\ ValidationPassed) => ~ResolverRaised
    /\ (UnvalidatedMatchedEnded /\ TumorIdsGiven)
           => /\ error = "MissingPairedNormal" <=> \E i \in RowIndices : NormalMissing(i)
              /\ error = "MissingPairedNormal"
                     => /\ ordered_tumor_samples = << >>
                        /\ ordered_normal_samples = << >>
                        /\ ordered_tn_genotyping_samples = << >>

(* C9 amended: after a validation that passed, matched resolution completes;
   without validation, matched resolution raises the missing-paired-normal
   error exactly when some row names a normal that no normal bam contains and
   the tumor lookup finds a bam for that row and for every row before it, and
   then returns none of the three lists. *)
C9_RaisesIffNormalMissingFirst ==
    /\ (matched /\ ValidationPassed) => ~ResolverRaised
    /\ UnvalidatedMatchedEnded
           => /\ error = "MissingPairedNormal"
                     <=> \E i \in RowIndices :
                             NormalMissing(i) /\ \A j \in 1..i : TumorFound(j)
              /\ error = "MissingPairedNormal"
                     => /\ ordered_tumor_samples = << >>
                        /\ ordered_normal_samples = << >>
                        /\ ordered_tn_genotyping_samples = << >>

\* an unvalidated matched call raised for the normal of a row after the first
C9_Witness ==
    /\ UnvalidatedMatchedEnded
    /\ error = "MissingPairedNormal"
    /\ Len(pairing_file) >= 2
    /\ ~NormalMissing(1)

(* C10: unmatched mode as write_yaml_bams runs it: the pairing table is not
   read and the normal pool is not used; for a non-empty tumor pool the tumor
   list is the tumor pool in pool order, every normal is default_normal_path,
   and the T/N genotyping list is the tumor pool followed by default_normal_path
   once, as its last element. *)
C10_ImplicitUnmatched ==
    /\ (Main /\ ~matched /\ pc \in {"build", "include", "done"})
           => /\ pairing_file = << >>
              /\ tumor_bam_paths # << >>
              /\ ordered_tumor_samples = tumor_bam_paths
              /\ ordered_normal_samples =
                     [ k \in 1..Len(tumor_bam_paths) |-> default_normal_path ]
              /\ ordered_tn_genotyping_samples = tumor_bam_paths \o <<default_normal_path>>
    /\ (Main /\ ~matched /\ Written)
           => /\ PathsOf(yaml.tumor_bams) = tumor_bam_paths
              /\ PathsOf(yaml.normal_bams) =
                     [ k \in 1..Len(tumor_bam_paths) |-> default_normal_path ]

\* an unmatched run of two tumors wrote its lists while a normal directory was listed
C10_Witness ==
    /\ Main /\ ~matched /\ Written
    /\ Len(tumor_bam_paths) >= 2
    /\ normal_dir_given
    /\ \E k \in 1..Len(normal_bam_paths) : normal_bam_paths[k] # default_normal_path
    /\ Len(yaml.normal_bams) = Len(tumor_bam_paths)

====
